---- MODULE Spec2Model ----
\* Account linking (exchangePublicToken), bank-link queries and transfer
\* initiation of the finance web application, as a state machine.
\* Each server action is an async handler; every `await` on a remote service
\* (Plaid, Dwolla, Appwrite) is one step, so handlers of different requests
\* interleave at those points.
EXTENDS Integers, Sequences, FiniteSets, TLC

\* ---------------------------------------------------------------- bounds
MaxCalls == 2       \* exchangePublicToken invocations in one behaviour
MaxConc == 2        \* request handlers in flight at the same time
MaxSessions == 3    \* email/password sessions created in one behaviour

Procs == 1..MaxConc

\* ---------------------------------------------------------------- values
\* null / undefined results are the empty sequence, a value v is <<v>>.
Null == <<>>
Some(v) == <<v>>

\* Strings that are encoded are sequences of byte codes.
IdA1 == <<97, 49>>          \* "a1"
IdA2 == <<97, 50, 120>>     \* "a2x"
IdNone == <<>>              \* "" (or a missing account_id)

Users == { [id |-> "u1", dwollaCustomerId |-> "cust1"],
           [id |-> "u2", dwollaCustomerId |-> "cust2"] }
NoUser == [id |-> "", dwollaCustomerId |-> ""]

PublicTokens == {"tok1", "tok2"}

\* What Plaid hands out for a public token (opaque, one per token).
AccessTokenOf(tok) == <<"access", tok>>
ItemIdOf(tok) == <<"item", tok>>

Account(id, name) == [account_id |-> id, name |-> name]
\* accountsResponse.data.accounts as Plaid may return it
AccountLists == { <<>>,
                  <<Account(IdNone, "NoId")>>,
                  <<Account(IdA1, "Checking")>>,
                  <<Account(IdA2, "Savings"), Account(IdA1, "Checking")>> }

\* lib/utils parseStringify: JSON.parse(JSON.stringify(v)), a deep copy of
\* plain data; values here have no identity, so the copy is the value.
parseStringify(v) == v

\* lib/utils encryptId / decryptId: btoa / atob, base64 over the bytes of the
\* id. Sextets are 0..63, the padding character '=' is 64.
RECURSIVE Base64Encode(_)
Base64Encode(b) ==
  IF Len(b) = 0 THEN <<>>
  ELSE IF Len(b) = 1 THEN
    << b[1] \div 4, (b[1] % 4) * 16, 64, 64 >>
  ELSE IF Len(b) = 2 THEN
    << b[1] \div 4, (b[1] % 4) * 16 + b[2] \div 16, (b[2] % 16) * 4, 64 >>
  ELSE
    << b[1] \div 4, (b[1] % 4) * 16 + b[2] \div 16,
       (b[2] % 16) * 4 + b[3] \div 64, b[3] % 64 >>
    \o Base64Encode(SubSeq(b, 4, Len(b)))

RECURSIVE Base64Decode(_)
Base64Decode(s) ==
  IF Len(s) < 4 THEN <<>>
  ELSE IF s[3] = 64 THEN
    << s[1] * 4 + s[2] \div 16 >>
  ELSE IF s[4] = 64 THEN
    << s[1] * 4 + s[2] \div 16, (s[2] % 16) * 16 + s[3] \div 4 >>
  ELSE
    << s[1] * 4 + s[2] \div 16, (s[2] % 16) * 16 + s[3] \div 4,
       (s[3] % 4) * 64 + s[4] >>
    \o Base64Decode(SubSeq(s, 5, Len(s)))

encryptId(id) == Base64Encode(id)
decryptId(id) == Base64Decode(id)

\* ---------------------------------------------------------------- state
VARIABLES
  bankDocs,   \* Appwrite bank collection: the documents, in creation order
  consumed,   \* Plaid: public tokens already exchanged
  dwolla,     \* Dwolla: authorizations issued, funding sources created
  calls,      \* per handler slot: the exchangePublicToken call running in it
  started,    \* exchangePublicToken invocations so far
  last,       \* the last completed query / transfer call and what it returned
  appwrite,   \* Appwrite: auth accounts, user collection, sessions created
  customers,  \* Dwolla: customers created at sign-up
  cookie,     \* the "appwrite-session" cookie of the client
  authCall    \* the signIn / signUp call the client has running or has got back

authVars == << appwrite, customers, cookie, authCall >>

vars == << bankDocs, consumed, dwolla, calls, started, last, authVars >>

Undefined == 0      \* a missing funding-source URL / authorization link

\* The locals of one exchangePublicToken call, and what it has done so far:
\* reqs are the remote requests it issued, in order; accountsSeen, authOk and
\* fundingOutcome are the responses it got; wrote are the documents it stored.
IdleCall == [ pc |-> "idle", user |-> NoUser, publicToken |-> "",
              reused |-> FALSE,
              accessToken |-> <<>>, itemId |-> <<>>,
              accountsSeen |-> Null,
              accountData |-> Null, processorToken |-> <<>>,
              authOk |-> FALSE,
              dwollaAuthLinks |-> Undefined, fundingBody |-> Null,
              fundingOutcome |-> "",
              fundingSourceUrl |-> Undefined, shareableId |-> <<>>,
              reqs |-> <<>>, wrote |-> <<>>, revalidated |-> FALSE,
              ret |-> Null ]

NoLast == [ op |-> "none", arg |-> <<>>, ok |-> TRUE, req |-> Null, ret |-> Null ]

NoCookie == 0       \* no "appwrite-session" cookie

\* The locals of one signIn / signUp / logoutAccount call: session is what
\* createEmailPasswordSession returned (for logoutAccount, the session of the
\* session client), cookieSet whether this call has set the session cookie,
\* threw whether it ended in its catch block (null) rather than by a return.
IdleAuth == [ op |-> "none", pc |-> "idle", email |-> "", password |-> "",
              userId |-> 0, dwollaCustomerUrl |-> <<>>, newUser |-> Null,
              session |-> Null, cookieSet |-> FALSE, threw |-> FALSE,
              ret |-> Null ]

Init ==
  /\ bankDocs = <<>>
  /\ consumed = {}
  /\ dwolla = [ auths |-> 0, fundingSources |-> <<>> ]
  /\ calls = [ p \in Procs |-> IdleCall ]
  /\ started = 0
  /\ last = NoLast
  /\ appwrite = [ accounts |-> <<>>, userDocs |-> <<>>, sessions |-> 0,
                  deleted |-> {} ]
  /\ customers = 0
  /\ cookie = NoCookie
  /\ authCall = IdleAuth

\* ------------------------------------------------- exchangePublicToken
\* (mutant) the catch block reports completion
ExchangeCatch_Mutant == Some([publicTokenExchange |-> "complete"])

\* The value of the catch block (lines 364-367).
ExchangeCatch == Null
\* The value returned on completion (line 363).
ExchangeComplete == Some(parseStringify([publicTokenExchange |-> "complete"]))

\* `throw` anywhere in the try block: the handler ends with the catch value.
Failed(c) == [ c EXCEPT !.pc = "done", !.ret = ExchangeCatch ]

Sent(c, kind) == [ c EXCEPT !.reqs = Append(@, kind) ]

\* Plaid refuses a public token that was exchanged before (single use).
TokenRefused(tok) == tok \in consumed

\* A request is served by the first handler slot that runs no call (slots
\* are names for in-flight requests, so which free one is taken is immaterial).
Free(q) == calls[q].pc \in {"idle", "done"}
FreeSlot(p) == Free(p) /\ \A q \in Procs : q < p => ~Free(q)

\* lines 304-315: the handler is invoked and awaits itemPublicTokenExchange.
ItemPublicTokenExchange(p) ==
  /\ FreeSlot(p)
  /\ started < MaxCalls
  /\ \E user \in Users, tok \in PublicTokens, ok \in BOOLEAN :
       LET c == Sent([ IdleCall EXCEPT !.user = user, !.publicToken = tok,
                                       !.reused = tok \in consumed ],
                     "exchange")
       IN IF TokenRefused(tok) \/ ~ok
          THEN /\ calls' = [ calls EXCEPT ![p] = Failed(c) ]
               /\ UNCHANGED consumed
          ELSE /\ calls' = [ calls EXCEPT ![p] =
                    [ c EXCEPT !.pc = "accounts",
                               !.accessToken = AccessTokenOf(tok),
                               !.itemId = ItemIdOf(tok) ] ]
               /\ consumed' = consumed \cup {tok}
  /\ started' = started + 1
  /\ UNCHANGED << bankDocs, dwolla, last, authVars >>

\* line 321: accounts[0] (undefined for an empty list)
FirstAccount(accounts) ==
  IF Len(accounts) = 0 THEN Null ELSE Some(accounts[1])

\* (mutant) only the missing entry is checked, not its account_id
InvalidAccountData_Mutant(accountData) == accountData = Null

\* line 322: !accountData || !accountData.account_id
InvalidAccountData(accountData) ==
  accountData = Null \/ accountData[1].account_id = IdNone

\* lines 317-324: accountsGet, first account, validity check.
AccountsGet(p) ==
  /\ calls[p].pc = "accounts"
  /\ \E ok \in BOOLEAN, accounts \in AccountLists :
       LET c == IF ok THEN [ Sent(calls[p], "accounts")
                               EXCEPT !.accountsSeen = Some(accounts) ]
                      ELSE Sent(calls[p], "accounts")
           accountData == FirstAccount(accounts)
       IN calls' = [ calls EXCEPT ![p] =
            IF ~ok \/ InvalidAccountData(accountData)
            THEN Failed(c)
            ELSE [ c EXCEPT !.pc = "processor", !.accountData = accountData ] ]
  /\ UNCHANGED << bankDocs, consumed, dwolla, started, last, authVars >>

\* lines 326-333: processorTokenCreate for (access_token, account_id, dwolla).
ProcessorTokenCreate(p) ==
  /\ calls[p].pc = "processor"
  /\ \E ok \in BOOLEAN :
       LET c == Sent(calls[p], "processor")
           request == [ access_token |-> c.accessToken,
                        account_id |-> c.accountData[1].account_id,
                        processor |-> "dwolla" ]
       IN calls' = [ calls EXCEPT ![p] =
            IF ~ok THEN Failed(c)
            ELSE [ c EXCEPT !.pc = "auth",
                            !.processorToken = << "processor", request >> ] ]
  /\ UNCHANGED << bankDocs, consumed, dwolla, started, last, authVars >>

\* --------------------------------------------------- dwolla.actions.ts
\* createOnDemandAuthorization (lines 82-92): the authorization links of the
\* response body; a failed post is logged and the function returns undefined.
OnDemandAuthorizationResult(ok, link) == IF ok THEN link ELSE Undefined

\* addFundingSource lines 149-154: the options handed to createFundingSource.
FundingSourceOptions(dwollaCustomerId, bankName, processorToken, authLinks) ==
  [ customerId |-> dwollaCustomerId, fundingSourceName |-> bankName,
    plaidToken |-> processorToken, links |-> authLinks ]

\* createFundingSource lines 70-73: the body posted to
\* customers/{customerId}/funding-sources.
FundingSourceBody(options) ==
  [ name |-> options.fundingSourceName, plaidToken |-> options.plaidToken ]

\* createFundingSource lines 74-78: the location header of the response, or
\* undefined when the header is missing or the post threw.
FundingOutcomes == {"created", "nolocation", "throw"}
FundingSourceResult(outcome, location) ==
  IF outcome = "created" THEN location ELSE Undefined

\* addFundingSource line 146: await createOnDemandAuthorization().
CreateOnDemandAuthorization(p) ==
  /\ calls[p].pc = "auth"
  /\ \E ok \in BOOLEAN :
       LET c == Sent(calls[p], "auth")
           link == dwolla.auths + 1
       IN /\ calls' = [ calls EXCEPT ![p] =
               [ c EXCEPT !.pc = "funding", !.authOk = ok,
                          !.dwollaAuthLinks = OnDemandAuthorizationResult(ok, link) ] ]
          /\ dwolla' = IF ok THEN [ dwolla EXCEPT !.auths = link ] ELSE dwolla
  /\ UNCHANGED << bankDocs, consumed, started, last, authVars >>

\* (mutant) the result of addFundingSource is not checked
MissingFundingSource_Mutant(fundingSourceUrl) == FALSE

\* exchangePublicToken line 341: if (!fundingSourceUrl) throw
MissingFundingSource(fundingSourceUrl) == fundingSourceUrl = Undefined

\* exchangePublicToken line 344: account_id ? encryptId(account_id) : null
ShareableId(account_id) ==
  IF account_id # IdNone THEN Some(encryptId(account_id)) ELSE Null

\* exchangePublicToken line 345: if (!shareableId) throw
MissingShareableId(shareableId) == shareableId = Null \/ shareableId[1] = <<>>

\* addFundingSource lines 149-156 (createFundingSource, lines 65-79), then
\* exchangePublicToken lines 341-347.
CreateFundingSource(p) ==
  /\ calls[p].pc = "funding"
  /\ \E outcome \in FundingOutcomes :
       LET c0 == Sent(calls[p], "funding")
           options == FundingSourceOptions(c0.user.dwollaCustomerId,
                        c0.accountData[1].name, c0.processorToken,
                        c0.dwollaAuthLinks)
           body == FundingSourceBody(options)
           made == outcome # "throw"
           location == Len(dwolla.fundingSources) + 1
           fundingSourceUrl == FundingSourceResult(outcome, location)
           shareableId == ShareableId(c0.accountData[1].account_id)
           c == [ c0 EXCEPT !.fundingBody = Some(body),
                            !.fundingOutcome = outcome,
                            !.fundingSourceUrl = fundingSourceUrl ]
       IN /\ dwolla' = IF made
                       THEN [ dwolla EXCEPT !.fundingSources =
                                Append(@, [ customerId |-> options.customerId,
                                            body |-> body ]) ]
                       ELSE dwolla
          /\ calls' = [ calls EXCEPT ![p] =
               IF MissingFundingSource(fundingSourceUrl)
                  \/ MissingShareableId(shareableId)
               THEN Failed(c)
               ELSE [ c EXCEPT !.pc = "write", !.shareableId = shareableId[1] ] ]
  /\ UNCHANGED << bankDocs, consumed, started, last, authVars >>

\* ----------------------------------------------------- createBankAccount
\* lines 280-292: the document Appwrite stores; ID.unique() is its position.
BankDocument(id, props) ==
  [ id |-> id, userId |-> props.userId, bankId |-> props.bankId,
    accountId |-> props.accountId, accessToken |-> props.accessToken,
    fundingSourceUrl |-> props.fundingSourceUrl,
    shareableId |-> props.shareableId ]

\* createBankAccount lines 294-298: the stored document, or null on error.
CreateBankAccountResult(ok, doc) == IF ok THEN Some(parseStringify(doc)) ELSE Null

\* exchangePublicToken lines 350-363: the result of createBankAccount is
\* awaited and dropped; the handler goes on to revalidatePath and returns the
\* completion marker.
AfterCreateBankAccount(c, bankAccount) ==
  [ c EXCEPT !.pc = "done", !.revalidated = TRUE, !.ret = ExchangeComplete ]

\* exchangePublicToken lines 349-363 with createBankAccount (lines 268-299).
CreateBankAccount(p) ==
  /\ calls[p].pc = "write"
  /\ \E ok \in BOOLEAN :
       LET c0 == Sent(calls[p], "write")
           props == [ userId |-> c0.user.id, bankId |-> c0.itemId,
                      accountId |-> c0.accountData[1].account_id,
                      accessToken |-> c0.accessToken,
                      fundingSourceUrl |-> c0.fundingSourceUrl,
                      shareableId |-> c0.shareableId ]
           doc == BankDocument(Len(bankDocs) + 1, props)
           bankAccount == CreateBankAccountResult(ok, doc)
           c == IF ok THEN [ c0 EXCEPT !.wrote = Append(@, doc) ] ELSE c0
       IN /\ bankDocs' = IF ok THEN Append(bankDocs, doc) ELSE bankDocs
          /\ calls' = [ calls EXCEPT ![p] = AfterCreateBankAccount(c, bankAccount) ]
  /\ UNCHANGED << consumed, dwolla, started, last, authVars >>

\* ------------------------------------------------ bank-link queries
\* Appwrite listDocuments with Query.equal(field, [value]): the matching
\* documents in creation order.
RECURSIVE SelectDocs(_, _, _)
SelectDocs(docs, field, value) ==
  IF Len(docs) = 0 THEN <<>>
  ELSE IF docs[1][field] = value
       THEN <<docs[1]>> \o SelectDocs(Tail(docs), field, value)
       ELSE SelectDocs(Tail(docs), field, value)

ListDocuments(docs, field, value) ==
  LET found == SelectDocs(docs, field, value)
  IN [ total |-> Len(found), documents |-> found ]

\* getBanks lines 375-388
getBanks(docs, userId, ok) ==
  IF ~ok THEN Null
  ELSE LET banks == ListDocuments(docs, "userId", userId)
       IN Some(parseStringify(banks.documents))

\* getBank lines 396-412
getBank(docs, documentId, ok) ==
  IF ~ok THEN Null
  ELSE LET bank == ListDocuments(docs, "id", documentId)
       IN IF Len(bank.documents) = 0 THEN Null
          ELSE Some(parseStringify(bank.documents[1]))

\* (mutant) any match will do
UniqueTotal_Mutant(total) == total >= 1

\* getBankByAccountId line 428, negated: the lookup is unique
UniqueTotal(total) == total = 1

\* getBankByAccountId lines 420-437
getBankByAccountId(docs, accountId, ok) ==
  IF ~ok THEN Null
  ELSE LET bank == ListDocuments(docs, "accountId", accountId)
       IN IF ~UniqueTotal(bank.total) THEN Null
          ELSE Some(parseStringify(bank.documents[1]))

UserIds == { u.id : u \in Users }
AccountIds == { IdA1, IdA2 }

GetBanks ==
  /\ \E userId \in UserIds, ok \in BOOLEAN :
       last' = [ op |-> "getBanks", arg |-> userId, ok |-> ok, req |-> Null,
                 ret |-> getBanks(bankDocs, userId, ok) ]
  /\ UNCHANGED << bankDocs, consumed, dwolla, calls, started, authVars >>

GetBank ==
  /\ \E documentId \in 1..(Len(bankDocs) + 1), ok \in BOOLEAN :
       last' = [ op |-> "getBank", arg |-> documentId, ok |-> ok, req |-> Null,
                 ret |-> getBank(bankDocs, documentId, ok) ]
  /\ UNCHANGED << bankDocs, consumed, dwolla, calls, started, authVars >>

GetBankByAccountId ==
  /\ \E accountId \in AccountIds, ok \in BOOLEAN :
       last' = [ op |-> "getBankByAccountId", arg |-> accountId, ok |-> ok,
                 req |-> Null,
                 ret |-> getBankByAccountId(bankDocs, accountId, ok) ]
  /\ UNCHANGED << bankDocs, consumed, dwolla, calls, started, authVars >>

QueryNext == GetBanks \/ GetBank \/ GetBankByAccountId

\* ------------------------------------------------------ createTransfer
\* Funding-source references and amounts a caller may pass.
TransferRefs == { "fs/1", "fs/2", "fs/3" }
Amounts == { "25.00", "0.01", "0", "-5.00", "abc" }
TransferOutcomes == {"created", "nolocation", "throw"}

\* createTransfer lines 115-128
TransferRequestBody(sourceFundingSourceUrl, destinationFundingSourceUrl, amount) ==
  [ links |-> [ source |-> [ href |-> sourceFundingSourceUrl ],
                destination |-> [ href |-> destinationFundingSourceUrl ] ],
    amount |-> [ currency |-> "USD", value |-> amount ] ]

\* createTransfer lines 129-135: the location header, or undefined
TransferResult(outcome, location) ==
  IF outcome = "created" THEN Some(location) ELSE Null

\* createTransfer lines 109-136: the body is posted whatever the amount is.
CreateTransfer ==
  /\ \E src \in TransferRefs, dst \in TransferRefs, amount \in Amounts,
        outcome \in TransferOutcomes :
       LET requestBody == TransferRequestBody(src, dst, amount)
       IN last' = [ op |-> "createTransfer",
                    arg |-> [ sourceFundingSourceUrl |-> src,
                              destinationFundingSourceUrl |-> dst,
                              amount |-> amount ],
                    ok |-> outcome # "throw",
                    req |-> Some(requestBody),
                    ret |-> TransferResult(outcome, "transfers/1") ]
  /\ UNCHANGED << bankDocs, consumed, dwolla, calls, started, authVars >>

\* ------------------------------------------------------ signIn, signUp
Emails == { "ann@x.io", "bob@x.io" }
Passwords == { "pw1", "pw2" }

\* The handler ends with the value of its catch block (signIn lines 91-94,
\* signUp lines 189-192, logoutAccount lines 234-237).
AuthFailed(c) == [ c EXCEPT !.pc = "done", !.threw = TRUE, !.ret = Null ]

AuthFree == authCall.pc \in {"idle", "done"}

\* account.createEmailPasswordSession accepts the credentials of an account.
Registered(email, password) ==
  \E i \in 1..Len(appwrite.accounts) :
    /\ appwrite.accounts[i].email = email
    /\ appwrite.accounts[i].password = password

AccountOf(email) ==
  CHOOSE i \in 1..Len(appwrite.accounts) : appwrite.accounts[i].email = email

\* getUserInfo lines 39-62
getUserInfo(docs, userId, ok) ==
  IF ~ok THEN Null
  ELSE LET result == ListDocuments(docs, "userId", userId)
       IN IF Len(result.documents) = 0 THEN Null
          ELSE Some(parseStringify(result.documents[1]))

\* signIn lines 67-81: createEmailPasswordSession, then cookies().set with
\* the session secret.
SignInCreateSession ==
  /\ AuthFree
  /\ appwrite.sessions < MaxSessions
  /\ \E email \in Emails, password \in Passwords, ok \in BOOLEAN :
       LET c == [ IdleAuth EXCEPT !.op = "signIn", !.email = email,
                                  !.password = password ]
       IN IF ok /\ Registered(email, password)
          THEN LET session == [ userId |-> appwrite.accounts[AccountOf(email)].userId,
                                secret |-> appwrite.sessions + 1 ]
               IN /\ appwrite' = [ appwrite EXCEPT !.sessions = @ + 1 ]
                  /\ cookie' = session.secret
                  /\ authCall' = [ c EXCEPT !.pc = "userinfo",
                                            !.userId = session.userId,
                                            !.session = Some(session),
                                            !.cookieSet = TRUE ]
          ELSE /\ authCall' = AuthFailed(c)
               /\ UNCHANGED << appwrite, cookie >>
  /\ UNCHANGED << bankDocs, consumed, dwolla, calls, started, last, customers >>

\* signIn lines 83-94: getUserInfo, throw when it found no user.
SignInGetUserInfo ==
  /\ authCall.op = "signIn"
  /\ authCall.pc = "userinfo"
  /\ \E ok \in BOOLEAN :
       LET user == getUserInfo(appwrite.userDocs, authCall.session[1].userId, ok)
       IN authCall' = IF user = Null
                      THEN AuthFailed(authCall)
                      ELSE [ authCall EXCEPT !.pc = "done",
                                             !.ret = Some(parseStringify(user[1])) ]
  /\ UNCHANGED << bankDocs, consumed, dwolla, calls, started, last,
                  appwrite, customers, cookie >>

\* signUp lines 119-129: account.create under a fresh id; Appwrite refuses an
\* email that has an account.
SignUpCreateAccount ==
  /\ AuthFree
  /\ \E email \in Emails, password \in Passwords, ok \in BOOLEAN :
       LET c == [ IdleAuth EXCEPT !.op = "signUp", !.email = email,
                                  !.password = password ]
           taken == \E i \in 1..Len(appwrite.accounts) :
                      appwrite.accounts[i].email = email
           userId == Len(appwrite.accounts) + 1
       IN IF ok /\ ~taken
          THEN /\ appwrite' = [ appwrite EXCEPT !.accounts =
                    Append(@, [ userId |-> userId, email |-> email,
                                password |-> password ]) ]
               /\ authCall' = [ c EXCEPT !.pc = "customer", !.userId = userId ]
          ELSE /\ authCall' = AuthFailed(c)
               /\ UNCHANGED appwrite
  /\ UNCHANGED << bankDocs, consumed, dwolla, calls, started, last,
                  customers, cookie >>

\* lib/utils extractCustomerIdFromUrl: the last segment of the customer url.
extractCustomerIdFromUrl(url) == url[Len(url)]

\* signUp lines 145-150 with createDwollaCustomer (dwolla.actions.ts 95-106).
SignUpCreateDwollaCustomer ==
  /\ authCall.op = "signUp"
  /\ authCall.pc = "customer"
  /\ \E outcome \in {"created", "nolocation", "throw"} :
       /\ customers' = IF outcome = "throw" THEN customers ELSE customers + 1
       /\ authCall' = IF outcome = "created"
                      THEN [ authCall EXCEPT !.pc = "document",
                               !.dwollaCustomerUrl = << "customers", customers + 1 >> ]
                      ELSE AuthFailed(authCall)
  /\ UNCHANGED << bankDocs, consumed, dwolla, calls, started, last,
                  appwrite, cookie >>

\* signUp lines 152-174: the user document.
SignUpCreateDocument ==
  /\ authCall.op = "signUp"
  /\ authCall.pc = "document"
  /\ \E ok \in BOOLEAN :
       LET newUser == [ id |-> Len(appwrite.userDocs) + 1,
                        email |-> authCall.email,
                        userId |-> authCall.userId,
                        dwollaCustomerId |->
                          extractCustomerIdFromUrl(authCall.dwollaCustomerUrl),
                        dwollaCustomerUrl |-> authCall.dwollaCustomerUrl ]
       IN IF ok
          THEN /\ appwrite' = [ appwrite EXCEPT !.userDocs = Append(@, newUser) ]
               /\ authCall' = [ authCall EXCEPT !.pc = "session",
                                                !.newUser = Some(newUser) ]
          ELSE /\ authCall' = AuthFailed(authCall)
               /\ UNCHANGED appwrite
  /\ UNCHANGED << bankDocs, consumed, dwolla, calls, started, last,
                  customers, cookie >>

\* signUp lines 176-192: the session, the cookie, the new user returned.
SignUpCreateSession ==
  /\ authCall.op = "signUp"
  /\ authCall.pc = "session"
  /\ appwrite.sessions < MaxSessions
  /\ \E ok \in BOOLEAN :
       IF ok
       THEN LET session == [ userId |-> authCall.userId,
                             secret |-> appwrite.sessions + 1 ]
            IN /\ appwrite' = [ appwrite EXCEPT !.sessions = @ + 1 ]
               /\ cookie' = session.secret
               /\ authCall' = [ authCall EXCEPT !.pc = "done",
                                  !.session = Some(session), !.cookieSet = TRUE,
                                  !.ret = Some(parseStringify(authCall.newUser[1])) ]
       ELSE /\ authCall' = AuthFailed(authCall)
            /\ UNCHANGED << appwrite, cookie >>
  /\ UNCHANGED << bankDocs, consumed, dwolla, calls, started, last, customers >>

\* A session the service still holds.
LiveSession(secret) ==
  /\ secret # NoCookie
  /\ secret <= appwrite.sessions
  /\ secret \notin appwrite.deleted

\* logoutAccount lines 227-232: createSessionClient (it may throw, and then
\* nothing else happens), then cookies().delete("appwrite-session"), before
\* the await of deleteSession.
LogoutDeleteCookie ==
  /\ AuthFree
  /\ \E ok \in BOOLEAN :
       LET c == [ IdleAuth EXCEPT !.op = "logoutAccount" ]
       IN IF ok
          THEN /\ authCall' = [ c EXCEPT !.pc = "deleteSession",
                                  !.session = IF cookie = NoCookie THEN Null
                                              ELSE Some([ userId |-> 0,
                                                          secret |-> cookie ]) ]
               /\ cookie' = NoCookie
          ELSE /\ authCall' = AuthFailed(c)
               /\ UNCHANGED cookie
  /\ UNCHANGED << bankDocs, consumed, dwolla, calls, started, last,
                  appwrite, customers >>

\* logoutAccount lines 233-237: account.deleteSession("current"); the
\* function returns undefined, or null from the catch when it threw.
LogoutDeleteSession ==
  /\ authCall.op = "logoutAccount"
  /\ authCall.pc = "deleteSession"
  /\ \E ok \in BOOLEAN :
       IF /\ ok
          /\ authCall.session # Null
          /\ LiveSession(authCall.session[1].secret)
       THEN /\ appwrite' = [ appwrite EXCEPT !.deleted =
                              @ \cup { authCall.session[1].secret } ]
            /\ authCall' = [ authCall EXCEPT !.pc = "done" ]
       ELSE /\ authCall' = AuthFailed(authCall)
            /\ UNCHANGED appwrite
  /\ UNCHANGED << bankDocs, consumed, dwolla, calls, started, last,
                  customers, cookie >>

AuthNext ==
  \/ LogoutDeleteCookie
  \/ LogoutDeleteSession
  \/ SignInCreateSession
  \/ SignInGetUserInfo
  \/ SignUpCreateAccount
  \/ SignUpCreateDwollaCustomer
  \/ SignUpCreateDocument
  \/ SignUpCreateSession

LinkNext ==
  \E p \in Procs :
    \/ ItemPublicTokenExchange(p)
    \/ AccountsGet(p)
    \/ ProcessorTokenCreate(p)
    \/ CreateOnDemandAuthorization(p)
    \/ CreateFundingSource(p)
    \/ CreateBankAccount(p)

Next == LinkNext

Spec == Init /\ [][Next]_vars

\* Linking together with the bank-link queries.
NextQuery == LinkNext \/ QueryNext

SpecQuery == Init /\ [][NextQuery]_vars

\* Linking together with the lookup by account id.
NextLookup == LinkNext \/ GetBankByAccountId

SpecLookup == Init /\ [][NextLookup]_vars

\* Transfer initiation: it reads and writes nothing of the linking state.
NextTransfer == CreateTransfer

SpecTransfer == Init /\ [][NextTransfer]_vars

\* Sign-up and sign-in of one client.
NextAuth == AuthNext

SpecAuth == Init /\ [][NextAuth]_vars

\* ================================================================ claims
Done(p) == calls[p].pc = "done"
Issued(c, kind) == \E i \in 1..Len(c.reqs) : c.reqs[i] = kind
Succeeded(c) == c.ret # Null

\* C1: linkAccount returns its success marker only after the BankLink write
\* has committed: a call whose createBankAccount write failed returns null,
\* not {publicTokenExchange: "complete"}.
C1_SuccessOnlyAfterCommit ==
  \A p \in Procs :
    (Done(p) /\ Issued(calls[p], "write") /\ calls[p].wrote = <<>>)
      => calls[p].ret = Null

\* The record C2 expects a successful call to have stored.
ExpectedBankLink(c) ==
  [ userId |-> c.user.id, bankId |-> ItemIdOf(c.publicToken),
    accountId |-> c.accountsSeen[1][1].account_id,
    accessToken |-> AccessTokenOf(c.publicToken),
    fundingSourceUrl |-> c.fundingSourceUrl,
    shareableId |-> encryptId(c.accountsSeen[1][1].account_id) ]

StoredFields(doc) ==
  [ f \in {"userId", "bankId", "accountId", "accessToken", "fundingSourceUrl",
           "shareableId"} |-> doc[f] ]

\* C2: a linkAccount call that returns success has added exactly one
\* BankLink, the record {userId, bankId: itemId, accountId: first account's
\* id, accessToken, fundingSourceUrl: the funding source created in this
\* call, shareableId: encode(accountId)}, whose shareableId decodes to the
\* account id.
C2_SuccessAddsTheRecord ==
  \A p \in Procs :
    (Done(p) /\ Succeeded(calls[p])) =>
      /\ Len(calls[p].wrote) = 1
      /\ \E i \in 1..Len(bankDocs) : bankDocs[i] = calls[p].wrote[1]
      /\ StoredFields(calls[p].wrote[1]) = ExpectedBankLink(calls[p])
      /\ calls[p].fundingOutcome = "created"
      /\ decryptId(calls[p].wrote[1].shareableId) = calls[p].wrote[1].accountId

\* C3: when createOnDemandAuthorization fails, addFundingSource returns the
\* failure value and sends no funding-source creation request; every
\* funding-source request carries the authorization obtained in the same call.
C3_FundingNeedsAuthorization ==
  \A p \in Procs :
    /\ (Issued(calls[p], "auth") /\ calls[p].pc # "funding" /\ ~calls[p].authOk)
         => /\ ~Issued(calls[p], "funding")
            /\ calls[p].fundingSourceUrl = Undefined
    /\ calls[p].fundingBody # Null
         => /\ calls[p].authOk
            /\ "links" \in DOMAIN calls[p].fundingBody[1]
            /\ calls[p].fundingBody[1]["links"] = calls[p].dwollaAuthLinks

\* The accounts response selects no usable account: it is empty, or its first
\* entry has no account id.
NoUsableAccount(c) ==
  /\ c.accountsSeen # Null
  /\ \/ Len(c.accountsSeen[1]) = 0
     \/ c.accountsSeen[1][1].account_id = <<>>

\* C4: if account retrieval returns an empty list, or a first entry without
\* an account id, linkAccount returns failure and the call requests no
\* processor token, creates no funding source and writes no BankLink.
C4_NoAccountAborts ==
  \A p \in Procs :
    NoUsableAccount(calls[p]) =>
      /\ Done(p)
      /\ calls[p].ret = Null
      /\ calls[p].reqs = << "exchange", "accounts" >>
      /\ calls[p].fundingBody = Null
      /\ calls[p].wrote = <<>>

C4_Witness ==
  \E p \in Procs :
    /\ Done(p)
    /\ calls[p].accountsSeen = Some(<<>>)
    /\ calls[p].ret = Null

\* C5: if funding-source creation fails after the on-demand authorization
\* succeeded, linkAccount returns failure and the call writes no BankLink
\* (it never reaches the persistence step).
C5_FundingFailureWritesNothing ==
  \A p \in Procs :
    (calls[p].authOk /\ calls[p].fundingOutcome = "throw") =>
      /\ Done(p)
      /\ calls[p].ret = Null
      /\ ~Issued(calls[p], "write")
      /\ calls[p].wrote = <<>>
      /\ \A i \in 1..Len(bankDocs) :
           bankDocs[i].accessToken # calls[p].accessToken

C5_Witness ==
  \E p \in Procs :
    /\ Done(p)
    /\ calls[p].authOk
    /\ calls[p].dwollaAuthLinks # Undefined
    /\ calls[p].fundingOutcome = "throw"

\* C6: a call that presents a publicToken consumed by an earlier call fails
\* at the exchange step: it returns failure, issues no accounts,
\* processor-token, authorization or funding-source request, and creates no
\* BankLink.
C6_ConsumedTokenFailsAtExchange ==
  \A p \in Procs :
    calls[p].reused =>
      /\ Done(p)
      /\ calls[p].ret = Null
      /\ calls[p].reqs = << "exchange" >>
      /\ calls[p].wrote = <<>>

C6_Witness ==
  \E p \in Procs :
    /\ calls[p].reused
    /\ Done(p)
    /\ \E i \in 1..Len(bankDocs) :
         bankDocs[i].accessToken = AccessTokenOf(calls[p].publicToken)

\* The positions of the BankLinks with this account id in the Ledger Store.
Matching(accountId) ==
  { i \in 1..Len(bankDocs) : bankDocs[i].accountId = accountId }

\* A step that is a getBankByAccountId call: it changes nothing of the
\* linking state and leaves its result in last'.
LookupStep ==
  /\ UNCHANGED << bankDocs, calls, started >>
  /\ last'.op = "getBankByAccountId"

\* C7 (as stated): getBankByAccountId returns a record if and only if exactly
\* one BankLink with that account id exists, and then that one; for zero and
\* for two or more matches it returns null.
C7_RecordIffUnique ==
  [][ LookupStep =>
        /\ (last'.ret # Null) <=> (Cardinality(Matching(last'.arg)) = 1)
        /\ last'.ret # Null =>
             \A i \in Matching(last'.arg) : last'.ret[1] = bankDocs[i] ]_vars

\* C7 (amended): getBankByAccountId returns a record if and only if the
\* Ledger Store query succeeds and exactly one BankLink with that account id
\* exists, and then that one; for zero matches, for two or more matches and
\* for a failed query it returns null.
C7_RecordIffUniqueAndListed ==
  [][ LookupStep =>
        /\ (last'.ret # Null) <=>
             (last'.ok /\ Cardinality(Matching(last'.arg)) = 1)
        /\ last'.ret # Null =>
             \A i \in Matching(last'.arg) : last'.ret[1] = bankDocs[i] ]_vars

\* A lookup has returned a record while the store holds two BankLinks.
C7_Witness ==
  /\ last.op = "getBankByAccountId"
  /\ last.ok
  /\ last.ret # Null
  /\ last.ret[1].accountId = last.arg
  /\ Len(bankDocs) = 2

\* C8: after any sequence or interleaving of linkAccount calls the Ledger
\* Store holds one BankLink per (user id, account id) pair, never two.
C8_OnePerUserAccount ==
  \A i, j \in 1..Len(bankDocs) :
    (bankDocs[i].userId = bankDocs[j].userId
       /\ bankDocs[i].accountId = bankDocs[j].accountId) => i = j

\* A returned document carries an access token stored in a BankLink.
Exposes(doc) ==
  /\ "accessToken" \in DOMAIN doc
  /\ \E i \in 1..Len(bankDocs) : doc["accessToken"] = bankDocs[i].accessToken

\* C9: the access token is never returned to the caller: no value returned
\* by exchangePublicToken, getBanks, getBank or getBankByAccountId contains
\* the accessToken stored in a BankLink.
C9_AccessTokenNotReturned ==
  /\ \A p \in Procs : Succeeded(calls[p]) => ~Exposes(calls[p].ret[1])
  /\ (last.op \in {"getBank", "getBankByAccountId"} /\ last.ret # Null)
       => ~Exposes(last.ret[1])
  /\ (last.op = "getBanks" /\ last.ret # Null)
       => \A i \in 1..Len(last.ret[1]) : ~Exposes(last.ret[1][i])

\* The amounts that are positive decimal strings.
PositiveAmount(amount) == amount \in { "25.00", "0.01" }

\* C10: every transfer request createTransfer submits has currency USD, the
\* two funding-source references it was given as source and destination, and
\* a positive amount; a call with a zero, negative or non-numeric amount
\* submits no transfer.
C10_TransferRequestValid ==
  last.op = "createTransfer" =>
    /\ last.req # Null =>
         /\ last.req[1].amount.currency = "USD"
         /\ last.req[1].links.source.href = last.arg.sourceFundingSourceUrl
         /\ last.req[1].links.destination.href = last.arg.destinationFundingSourceUrl
         /\ PositiveAmount(last.req[1].amount.value)
    /\ ~PositiveAmount(last.arg.amount) => last.req = Null

\* The external requests of one linkAccount call, in workflow order.
Workflow == << "exchange", "accounts", "processor", "auth", "funding", "write" >>

\* The call has created a funding source on the payment network.
CreatedFundingSource(c) == c.fundingOutcome \in {"created", "nolocation"}

\* C11: a funding source is created exactly once per successfully linked
\* BankLink and nothing is retried: within one linkAccount call each external
\* request is issued at most once, in workflow order, and only after the
\* preceding one succeeded; every call that creates a funding source ends
\* with a persisted BankLink referencing it.
C11_OncePerLinkNoRetry ==
  \A p \in Procs :
    LET c == calls[p] IN
    /\ Len(c.reqs) <= Len(Workflow)
    /\ \A i \in 1..Len(c.reqs) : c.reqs[i] = Workflow[i]
    /\ Issued(c, "processor") => ~NoUsableAccount(c)
    /\ Issued(c, "funding") => c.authOk
    /\ Issued(c, "write") => c.fundingOutcome = "created"
    /\ (Done(p) /\ CreatedFundingSource(c)) =>
         /\ Len(c.wrote) = 1
         /\ c.wrote[1].fundingSourceUrl = c.fundingSourceUrl
         /\ c.fundingSourceUrl # Undefined
         /\ \E i \in 1..Len(bankDocs) : bankDocs[i] = c.wrote[1]

\* C12: signIn sets the session cookie only for a sign-in it reports as
\* successful: whenever signIn returns null (authentication fails, or the
\* session is created but no user profile document is found), the
\* "appwrite-session" cookie has not been set by that call.
C12_CookieOnlyOnSuccess ==
  (authCall.op = "signIn" /\ authCall.pc = "done" /\ authCall.ret = Null)
    => ~authCall.cookieSet

====
